---- MODULE Spec2Model ----
(***************************************************************************)
(* Model of preprocessGPXtracks.py: the track-normalisation pipeline       *)
(* prepare -> makeouttree over the list of track segments of a GPX file.   *)
(*                                                                         *)
(* A track segment (an lxml <trkseg> element) is the sequence of its       *)
(* children: <trkpt> elements and others, such as <extensions>. A child is *)
(* a record of its tag and, for a <trkpt>, of its lat and lon attributes   *)
(* and of the texts of its <ele> and <time> children.                      *)
(*                                                                         *)
(* A text is the sequence of the code points of its characters, as Python  *)
(* 3 holds a str. The .text of an element is a set: {} for None, {s} for   *)
(* the str s. The <time> child of a point is a record of whether find()    *)
(* finds it and of its .text; of the <ele> child the model keeps the .text *)
(* only, {} also when the child is missing (the code treats both alike).   *)
(* The timestamps of a document have one format and differ in one digit;   *)
(* Stamp(t) writes timestamp number t as that digit, so that the string    *)
(* order of two timestamps is the order of their numbers. The text of a    *)
(* <time> child is a timestamp, alone or with white space around it, or    *)
(* white space only, or None (<time/>).                                    *)
(*                                                                         *)
(* prepare() and makeouttree() are reached in two ways: called with an int *)
(* minpoints (which is also what main() passes when -m is not given, the   *)
(* default 3), or from main() with -m/--minpoints, which argparse hands on *)
(* as a str because the option declares no type (Python 3 semantics).      *)
(***************************************************************************)
EXTENDS Integers, Sequences, FiniteSets

\* ---------------------------------------------------------------- bounds
MaxT == 2            \* plain timestamps 1..MaxT in the hand-made documents
MaxTokens == 4       \* children plus segment breaks of a hand-made document
MaxMinpoints == 3    \* an int minpoints ranges over 0..MaxMinpoints
MaxRampLen == 6      \* longest segment of the regular documents

VARIABLES
    tracklist,        \* the input tree: the <trkseg> elements gettracks found
    srcdoc,           \* tracklist as it was parsed (history variable)
    minpoints, crop,  \* the minpoints and crop arguments of makeouttree
    mstr,             \* minpoints is the str that -m gave, not an int
    quiet,            \* the quiet argument
    pc,               \* where main() is
    newtracklist,     \* prepare's result: references (indices) into tracklist
    numempty, numdupes,
    outtree,          \* the <trk> elements of the output tree, in order
    outsrc,           \* for each <trk>, the segment it was built from (history)
    skippedtracksegs,
    processed,        \* candidates whose loop iteration in makeouttree began
    run,              \* 1: the first run; 2: the run on the first run's output
    prevout           \* the outtree of the first run, once run = 2

vars == <<tracklist, srcdoc, minpoints, crop, mstr, quiet, pc, newtracklist, numempty,
          numdupes, outtree, outsrc, skippedtracksegs, processed, run, prevout>>

\* ------------------------------------------------------------ the values
None == {}
Text(s) == {s}
NoEle == {}
NoName == {}

\* find('{ns}time') is None: the point has no <time> child
NoTime == [found |-> FALSE, text |-> None]

\* a <time> child and its .text
Time(text) == [found |-> TRUE, text |-> text]

\* the str that a .text which is not None holds
TextOf(text) == CHOOSE s \in text : TRUE

\* the text of timestamp number t (1..9): the digit of t
Stamp(t) == <<48 + t>>

\* a <trkpt> with the <time> t and the <ele> e
Pt(t, e) ==
    [tag |-> "trkpt", lat |-> "52.5", lon |-> "13.4", ele |-> e, time |-> t]

\* a child of a <trkseg> that is not a <trkpt>
Extensions ==
    [tag |-> "extensions", lat |-> "", lon |-> "", ele |-> NoEle,
     time |-> NoTime]

\* the tag a child is found by: '{ns}trkpt'
IsTrkpt(child) == child.tag = "trkpt"

\* the characters str.strip() of Python 3 removes (those of str.isspace()),
\* by code point
Whitespace ==
    (9..13) \cup (28..32) \cup {133, 160, 5760} \cup (8192..8202)
    \cup {8232, 8233, 8239, 8287, 12288}

RECURSIVE LStrip(_)
LStrip(s) == IF s # <<>> /\ Head(s) \in Whitespace THEN LStrip(Tail(s)) ELSE s

RECURSIVE RStrip(_)
RStrip(s) ==
    IF s # <<>> /\ s[Len(s)] \in Whitespace
    THEN RStrip(SubSeq(s, 1, Len(s) - 1))
    ELSE s

\* str.strip()
StripText(s) == RStrip(LStrip(s))

RECURSIVE StrLess(_, _)
\* Python's str < str: the first code point that differs decides, and a
\* proper prefix is less
StrLess(a, b) ==
    IF b = <<>> THEN FALSE
    ELSE IF a = <<>> THEN TRUE
    ELSE IF Head(a) # Head(b) THEN Head(a) < Head(b)
    ELSE StrLess(Tail(a), Tail(b))

\* ------------------------------------------------------------- documents
\* the children of the hand-made documents: plain timestamps (number 2
\* without <ele>), a point without <time>, a point with <time/>, a point
\* whose <time> and <ele> texts are a blank, a later timestamp between a
\* blank (U+0020 sorts below the digits) and a line feed with an <ele> of
\* U+00A0, "5", line feed, and an <extensions> element
Children ==
    {Pt(Time(Text(Stamp(t))), IF t = 2 THEN NoEle ELSE Text(<<53>>)) :
        t \in 1..MaxT}
    \cup {Pt(NoTime, Text(<<53>>)),
          Pt(Time(None), Text(<<53>>)),
          Pt(Time(Text(<<32>>)), Text(<<32>>)),
          Pt(Time(Text(<<32>> \o Stamp(MaxT + 1) \o <<10>>)),
             Text(<<160, 53, 10>>)),
          Extensions}

Break ==
    [tag |-> "/trkseg", lat |-> "", lon |-> "", ele |-> NoEle, time |-> NoTime]

RECURSIVE SplitDoc(_)
\* the segments a token sequence spells: a Break closes a segment
SplitDoc(toks) ==
    IF toks = <<>> THEN << <<>> >>
    ELSE LET last == toks[Len(toks)]
             rest == SplitDoc(SubSeq(toks, 1, Len(toks) - 1))
         IN  IF last = Break
             THEN Append(rest, <<>>)
             ELSE [rest EXCEPT ![Len(rest)] = Append(@, last)]

HandDocs ==
    {SplitDoc(toks) :
        toks \in UNION {[1..n -> Children \cup {Break}] : n \in 0..MaxTokens}}

\* a well-formed segment: n points one time unit apart, starting at s
Ramp(s, n) == [i \in 1..n |-> Pt(Time(Text(Stamp(s + i - 1))), Text(<<53>>))]

RampDocs ==
    {<<Ramp(1, n)>> : n \in 0..MaxRampLen}
    \cup {<<Ramp(2, n), Ramp(1, m)>> : n, m \in 0..MaxRampLen}

Docs == HandDocs \cup RampDocs

\* ------------------------------------------------------------- prepare()
\* track.find('{ns}trkpt') is None
HasNoTrkpt(track) == \A i \in 1..Len(track) : ~IsTrkpt(track[i])

\* track.find('{ns}trkpt/{ns}time'): the first <time> element in document
\* order, i.e. of the first <trkpt> that has one, with or without a text;
\* NoTime when find() returns None
FindFirstTime(track) ==
    IF \E i \in 1..Len(track) : IsTrkpt(track[i]) /\ track[i].time.found
    THEN LET i == CHOOSE i \in 1..Len(track) :
                     /\ IsTrkpt(track[i]) /\ track[i].time.found
                     /\ \A j \in 1..(i - 1) :
                           ~IsTrkpt(track[j]) \/ ~track[j].time.found
         IN  track[i].time
    ELSE NoTime

\* track.find(firstptfind).text, as it stands in the file: a str or None
FirstPt(track) == FindFirstTime(track).text

InSeq(x, s) == \E i \in 1..Len(s) : s[i] = x

RECURSIVE PrepareLoop(_, _, _)
\* the for loop of prepare from track i on; st.raised: the AttributeError
\* of .text when find() returned None
PrepareLoop(tl, i, st) ==
    IF st.raised # "" \/ i > Len(tl) THEN st
    ELSE IF HasNoTrkpt(tl[i])
         THEN PrepareLoop(tl, i + 1, [st EXCEPT !.numempty = @ + 1])
    ELSE IF ~FindFirstTime(tl[i]).found
         THEN [st EXCEPT !.raised = "AttributeError"]
    ELSE IF InSeq(FirstPt(tl[i]), st.firstptlist)
         THEN PrepareLoop(tl, i + 1, [st EXCEPT !.numdupes = @ + 1])
    ELSE PrepareLoop(tl, i + 1,
            [st EXCEPT !.newtracklist = Append(@, i),
                       !.firstptlist = Append(@, FirstPt(tl[i]))])

\* sorted() compares every key with another one when there are two or more,
\* and < between a str and None raises TypeError
SortRaises(tl, s) ==
    Len(s) >= 2 /\ \E j \in 1..Len(s) : FirstPt(tl[s[j]]) = None

\* sorted() inserts stably: after every element whose key is not greater
InsertByFirstPt(tl, s, x) ==
    LET k == Cardinality({j \in 1..Len(s) :
                 ~StrLess(TextOf(FirstPt(tl[x])), TextOf(FirstPt(tl[s[j]])))})
    IN  SubSeq(s, 1, k) \o <<x>> \o SubSeq(s, k + 1, Len(s))

RECURSIVE SortByFirstPt(_, _)
\* sorted(newtracklist, key=lambda x: x.find(firstptfind).text)
SortByFirstPt(tl, s) ==
    IF s = <<>> THEN <<>>
    ELSE InsertByFirstPt(tl, SortByFirstPt(tl, SubSeq(s, 1, Len(s) - 1)),
                         s[Len(s)])

PrepareResult(tl) ==
    LET st == PrepareLoop(tl, 1, [newtracklist |-> <<>>, firstptlist |-> <<>>,
                                  numempty |-> 0, numdupes |-> 0,
                                  raised |-> ""])
    IN  IF st.raised # "" THEN st
        ELSE IF SortRaises(tl, st.newtracklist)
        THEN [st EXCEPT !.raised = "TypeError"]
        ELSE [st EXCEPT !.newtracklist = SortByFirstPt(tl, @)]

Prepare ==
    /\ pc = "parsed"
    /\ LET r == PrepareResult(tracklist)
       IN  IF r.raised # ""
           THEN /\ pc' = IF r.raised = "TypeError" THEN "prepare_typeerror"
                         ELSE "prepare_raised"
                /\ UNCHANGED <<newtracklist, numempty, numdupes>>
           ELSE /\ pc' = "prepared"
                /\ newtracklist' = r.newtracklist
                /\ numempty' = r.numempty
                /\ numdupes' = r.numdupes
    /\ UNCHANGED <<tracklist, srcdoc, minpoints, crop, mstr, quiet, outtree,
                   outsrc, skippedtracksegs, processed, run, prevout>>

\* --------------------------------------------------------- makepointdict()
\* time = trkpoint.find('{ns}time').text.strip() raises AttributeError on a
\* point that has no <time> child, or one whose text is None
PointDictRaises(pointlist) ==
    \E i \in 1..Len(pointlist) :
        ~pointlist[i].time.found \/ pointlist[i].time.text = None

\* ele = trkpoint.find('{ns}ele').text.strip(), and "0" on the AttributeError
\* of a missing <ele> or a text that is None
EleOf(trkpoint) ==
    IF trkpoint.ele = NoEle THEN <<48>>
    ELSE StripText(TextOf(trkpoint.ele))

\* pointdict[time] = (lat, lon, ele): a later point replaces an earlier one
\* that has the same stripped time
DictPut(pointdict, trkpoint) ==
    LET time == StripText(TextOf(trkpoint.time.text))
        val == [lat |-> trkpoint.lat, lon |-> trkpoint.lon,
                ele |-> EleOf(trkpoint)]
    IN  [k \in DOMAIN pointdict \cup {time} |->
            IF k = time THEN val ELSE pointdict[k]]

RECURSIVE MakePointDictFrom(_, _, _)
MakePointDictFrom(pointlist, i, pointdict) ==
    IF i > Len(pointlist) THEN pointdict
    ELSE MakePointDictFrom(pointlist, i + 1, DictPut(pointdict, pointlist[i]))

makepointdict(pointlist) == MakePointDictFrom(pointlist, 1, <<>>)

\* ----------------------------------------------------------- makeouttree()
RECURSIVE SortedKeys(_)
\* sorted(pointdict.keys())
SortedKeys(keys) ==
    IF keys = {} THEN <<>>
    ELSE LET hi == CHOOSE k \in keys : \A o \in keys : ~StrLess(k, o)
         IN  Append(SortedKeys(keys \ {hi}), hi)

\* NewTrkseg with the keys walked from the latest to the earliest
NewTrksegDescending(pointdict) ==
    LET ks == SortedKeys(DOMAIN pointdict)
    IN  [i \in 1..Len(ks) |->
            [tag |-> "trkpt",
             lat |-> pointdict[ks[Len(ks) + 1 - i]].lat,
             lon |-> pointdict[ks[Len(ks) + 1 - i]].lon,
             ele |-> Text(pointdict[ks[Len(ks) + 1 - i]].ele),
             time |-> Time(Text(ks[Len(ks) + 1 - i]))]]

\* the <trkpt> elements written for a pointdict, in the order of the for loop
NewTrkseg(pointdict) ==
    LET ks == SortedKeys(DOMAIN pointdict)
    IN  [i \in 1..Len(ks) |->
            [tag |-> "trkpt",
             lat |-> pointdict[ks[i]].lat, lon |-> pointdict[ks[i]].lon,
             ele |-> Text(pointdict[ks[i]].ele),
             time |-> Time(Text(ks[i]))]]

\* not crop and tracklen <= minpoints or crop and tracklen <= (minpoints + 2)
DropTrack(tracklen, c, m) ==
    \/ ~c /\ tracklen <= m
    \/ c /\ tracklen <= m + 2

\* track.findall('{ns}trkpt'): the <trkpt> children in document order
FindAllTrkpt(track) == SelectSeq(track, IsTrkpt)

\* CropPointlist with pointlist[1:] for pointlist[1:-1]
CropFirstOnly(pointlist, c) == IF c THEN Tail(pointlist) ELSE pointlist

\* pointlist[1:-1] when cropping
CropPointlist(pointlist, c) ==
    IF c THEN SubSeq(pointlist, 2, Len(pointlist) - 1) ELSE pointlist

\* track.remove(pointlist[0]) when cropping: the input element loses its
\* first <trkpt> child
RemoveFirst(track, c) ==
    IF c
    THEN LET i == CHOOSE i \in 1..Len(track) :
                     /\ IsTrkpt(track[i])
                     /\ \A j \in 1..(i - 1) : ~IsTrkpt(track[j])
         IN  SubSeq(track, 1, i - 1) \o SubSeq(track, i + 1, Len(track))
    ELSE track

\* track.find('{ns}trkpt/{ns}time') is None, or its text is: .text or
\* .strip() raises AttributeError
NameRaises(track) ==
    ~FindFirstTime(track).found \/ FirstPt(track) = None

\* name.text = track.find('{ns}trkpt/{ns}time').text.strip(), read from the
\* input element as it is after RemoveFirst
TrackName(track) == Text(StripText(TextOf(FirstPt(track))))

\* one iteration of the for loop of makeouttree, on candidate number j;
\* tracklen = len(track) counts every child of the <trkseg>; with a str
\* minpoints the test of lines 182-183 raises TypeError
OutTreeStep(st, cands, j, c, m, ms) ==
    LET x == cands[j]
        track == st.tracklist[x]
        began == [st EXCEPT !.processed = j]
    IN  IF ms THEN [began EXCEPT !.raised = "TypeError"]
        ELSE IF DropTrack(Len(track), c, m)
        THEN [began EXCEPT !.skipped = @ + 1]
        ELSE LET pointlist == CropPointlist(FindAllTrkpt(track), c)
                 left == [began EXCEPT
                             !.tracklist[x] = RemoveFirst(track, c),
                             !.outsrc = Append(@, x)]
             IN  IF PointDictRaises(pointlist)
                 THEN [left EXCEPT
                          !.outtree = Append(@, [name |-> NoName,
                                                  trkseg |-> <<>>]),
                          !.raised = "AttributeError"]
                 ELSE IF NameRaises(left.tracklist[x])
                 THEN [left EXCEPT
                          !.outtree = Append(@,
                              [name |-> NoName,
                               trkseg |-> NewTrkseg(makepointdict(pointlist))]),
                          !.raised = "AttributeError"]
                 ELSE [left EXCEPT
                          !.outtree = Append(@,
                              [name |-> TrackName(left.tracklist[x]),
                               trkseg |-> NewTrkseg(makepointdict(pointlist))])]

RECURSIVE OutTreeLoop(_, _, _, _, _, _)
OutTreeLoop(st, cands, j, c, m, ms) ==
    IF st.raised # "" \/ j > Len(cands) THEN st
    ELSE OutTreeLoop(OutTreeStep(st, cands, j, c, m, ms), cands, j + 1,
                     c, m, ms)

\* print('Skipped %d track segs ...' % (skippedtracksegs, minpoints)) unless
\* quiet: %d of a str raises TypeError
ReportRaises(ms, q) == ms /\ ~q

MakeOutTreeResult(tl, cands, c, m, ms, q) ==
    LET st == OutTreeLoop([tracklist |-> tl, outtree |-> <<>>,
                           outsrc |-> <<>>, skipped |-> 0, processed |-> 0,
                           raised |-> ""],
                          cands, 1, c, m, ms)
    IN  IF st.raised = "" /\ ReportRaises(ms, q)
        THEN [st EXCEPT !.raised = "TypeError"]
        ELSE st

MakeOutTree ==
    /\ pc = "prepared"
    /\ LET r == MakeOutTreeResult(tracklist, newtracklist, crop, minpoints,
                                  mstr, quiet)
       IN  /\ pc' = IF r.raised = "AttributeError" THEN "makeouttree_raised"
                    ELSE IF r.raised = "TypeError" THEN "makeouttree_typeerror"
                    ELSE "done"
           /\ tracklist' = r.tracklist
           /\ outtree' = r.outtree
           /\ outsrc' = r.outsrc
           /\ skippedtracksegs' = r.skipped
           /\ processed' = r.processed
    /\ UNCHANGED <<srcdoc, minpoints, crop, mstr, quiet, newtracklist,
                   numempty, numdupes, run, prevout>>

\* ------------------------------------------------------------------ main()
\* a <trkpt> as gettracks finds it in the file filewrite wrote: an <ele> or
\* a <time> whose text was '' is read back with the text None
ReadPoint(p) ==
    [p EXCEPT !.ele = IF @ = Text(<<>>) THEN NoEle ELSE @,
              !.time.text = IF @ = Text(<<>>) THEN None ELSE @]

\* gettracks on a file that filewrite wrote: every <trk> holds one <trkseg>,
\* whose children are the <trkpt> elements written
ReadBack(tree) ==
    [i \in 1..Len(tree) |->
        [k \in 1..Len(tree[i].trkseg) |-> ReadPoint(tree[i].trkseg[k])]]

\* the pipeline is run on the file the first run wrote, with minpoints 0 and
\* without crop: prepare and makeouttree called with the int 0, or the script
\* with --minpoints 0 (a str)
Rerun ==
    /\ pc = "done"
    /\ run = 1
    /\ run' = 2
    /\ prevout' = outtree
    /\ tracklist' = ReadBack(outtree)
    /\ srcdoc' = tracklist'
    /\ minpoints' = 0
    /\ mstr' \in BOOLEAN
    /\ quiet' \in BOOLEAN
    /\ ~mstr' => quiet'
    /\ crop' = FALSE
    /\ pc' = "parsed"
    /\ newtracklist' = <<>>
    /\ numempty' = 0
    /\ numdupes' = 0
    /\ outtree' = <<>>
    /\ outsrc' = <<>>
    /\ skippedtracksegs' = 0
    /\ processed' = 0

\* ------------------------------------------------------------------ init
Init ==
    /\ tracklist \in Docs
    /\ srcdoc = tracklist
    /\ minpoints \in 0..MaxMinpoints
    /\ mstr \in BOOLEAN
    /\ mstr => minpoints = 0
    /\ quiet \in BOOLEAN
    /\ ~mstr => quiet    \* with an int, quiet only selects what is printed
    /\ crop \in BOOLEAN
    /\ pc = "parsed"
    /\ newtracklist = <<>>
    /\ numempty = 0
    /\ numdupes = 0
    /\ outtree = <<>>
    /\ outsrc = <<>>
    /\ skippedtracksegs = 0
    /\ processed = 0
    /\ run = 1
    /\ prevout = <<>>

Next == Prepare \/ MakeOutTree \/ Rerun

Spec == Init /\ [][Next]_vars

\* ================================================================ claims
\* What the claims speak of, stated from the input document srcdoc and the
\* output tree outtree, not from the operators above.

Returned == pc = "done"
PrepareReturned ==
    pc \in {"prepared", "done", "makeouttree_raised", "makeouttree_typeerror"}
MakeOutTreeEntered ==
    pc \in {"done", "makeouttree_raised", "makeouttree_typeerror"}

\* minpoints is a number, as the claims take it to be
NumericMinpoints == ~mstr

Tracks == 1..Len(outtree)
Segments == 1..Len(srcdoc)

\* the points of segment x at extraction, in source order
PointsOf(x) == SelectSeq(srcdoc[x], IsTrkpt)

\* the point count of segment x before any cropping
PreCropLen(x) == Len(PointsOf(x))

\* point p has a timestamp: a <time> child whose text is not None and not
\* white space only
HasStamp(p) ==
    /\ p.time.found
    /\ p.time.text # None
    /\ StripText(TextOf(p.time.text)) # <<>>

\* segment x has a first point and that point has a timestamp
HasFirstPointTime(x) == PreCropLen(x) > 0 /\ HasStamp(PointsOf(x)[1])

\* the text of the timestamp of the first point of segment x at extraction,
\* as it stands in the file
FirstPointText(x) == TextOf(PointsOf(x)[1].time.text)

\* the number of the timestamp a text holds, white space around it aside
TimeOf(s) == CHOOSE t \in 1..9 : StripText(s) = Stamp(t)

\* the time of a point that has a timestamp
PointTime(p) == TimeOf(TextOf(p.time.text))

\* the text of the <time> of a point that has one, white space around it aside
PointStamp(p) == StripText(TextOf(p.time.text))

IsCandidate(x) == \E j \in 1..Len(newtracklist) : newtracklist[j] = x
IsEmitted(x) == \E i \in 1..Len(outsrc) : outsrc[i] = x

\* the times of the points of an emitted track, in order
EmittedTimes(i) ==
    [k \in 1..Len(outtree[i].trkseg) |-> PointTime(outtree[i].trkseg[k])]

\* every point of segment x has a timestamp
AllTimed(x) == \A k \in 1..PreCropLen(x) : HasStamp(PointsOf(x)[k])

\* segment x lists two points against their time order
OutOfTimeOrder(x) ==
    \E a, b \in 1..PreCropLen(x) :
        /\ a < b
        /\ HasStamp(PointsOf(x)[a]) /\ HasStamp(PointsOf(x)[b])
        /\ PointTime(PointsOf(x)[a]) > PointTime(PointsOf(x)[b])

\* ---------------------------------------------------------------------- C1
\* C1: every track of the output document holds strictly more than minpoints
\* points, counted in the output track.
C1_EmittedAboveMinpoints ==
    Returned => \A i \in Tracks : Len(outtree[i].trkseg) > minpoints

\* ---------------------------------------------------------------------- C2
Threshold == IF crop THEN minpoints + 2 ELSE minpoints

\* C2: for a number minpoints, a candidate that makeouttree has taken up is
\* emitted as a track if and only if its pre-crop point count is strictly
\* greater than minpoints (minpoints + 2 when cropping); every dropped
\* candidate adds exactly one to skippedtracksegs, and a run that returns has
\* taken up every candidate.
C2_EmittedIffAboveThreshold ==
    (MakeOutTreeEntered /\ NumericMinpoints) =>
        /\ Returned => processed = Len(newtracklist)
        /\ \A j \in 1..processed :
              IsEmitted(newtracklist[j]) <=> PreCropLen(newtracklist[j]) > Threshold
        /\ skippedtracksegs =
              Cardinality({j \in 1..processed :
                              PreCropLen(newtracklist[j]) <= Threshold})
        /\ Len(outtree) + skippedtracksegs = processed

\* ---------------------------------------------------------------------- C3
EarlierSameFirstPointTime(x) ==
    \E y \in 1..(x - 1) :
        HasFirstPointTime(y) /\ FirstPointText(y) = FirstPointText(x)

\* C3: once prepare has returned, a segment whose first point has a timestamp
\* is a candidate if and only if no earlier segment has the same first-point
\* timestamp text, and an empty segment is never a candidate.
C3_FirstOccurrenceRetained ==
    PrepareReturned =>
        /\ \A x \in Segments :
              HasFirstPointTime(x) =>
                  (IsCandidate(x) <=> ~EarlierSameFirstPointTime(x))
        /\ \A x \in Segments : PreCropLen(x) = 0 => ~IsCandidate(x)

\* ---------------------------------------------------------------------- C4
\* C4: the tracks of the output document, read in output order, have strictly
\* increasing pre-crop first-point timestamps: they ascend in time and no
\* timestamp is shared by two tracks.
C4_TracksAscendByFirstPointTime ==
    Returned =>
        \A i, j \in Tracks :
            (i < j /\ HasFirstPointTime(outsrc[i]) /\ HasFirstPointTime(outsrc[j]))
                => TimeOf(FirstPointText(outsrc[i]))
                       < TimeOf(FirstPointText(outsrc[j]))

\* ---------------------------------------------------------------------- C5
\* C5: the name of every emitted track is the timestamp of the first point
\* emitted in that track.
C5_NameIsFirstEmittedTime ==
    Returned =>
        \A i \in Tracks :
            /\ Len(outtree[i].trkseg) > 0
            /\ outtree[i].name = outtree[i].trkseg[1].time.text

\* ---------------------------------------------------------------------- C6
\* C6: within every emitted track the points are in non-decreasing order of
\* timestamp; a point written without a timestamp (from a <time> of white
\* space only) comes before those that have one.
C6_PointsInTimeOrder ==
    Returned =>
        \A i \in Tracks :
            \A k, l \in 1..Len(outtree[i].trkseg) :
                (k < l /\ HasStamp(outtree[i].trkseg[k])) =>
                    /\ HasStamp(outtree[i].trkseg[l])
                    /\ PointTime(outtree[i].trkseg[k])
                           <= PointTime(outtree[i].trkseg[l])

\* a track of two or more points from a segment that was out of time order
C6_Witness ==
    /\ Returned /\ run = 1
    /\ \E i \in Tracks :
          /\ Len(outtree[i].trkseg) >= 2
          /\ OutOfTimeOrder(outsrc[i])

\* ---------------------------------------------------------------------- C7
\* C7: the run with minpoints = 0 and crop = false on the document of a
\* previous run produces the same tracks, in the same order, with the same
\* names and points.
C7_RerunChangesNothing ==
    (run = 2 /\ Returned) => outtree = prevout

\* ---------------------------------------------------------------------- C8
\* the input has a segment whose first point has no timestamp, and no other
\* point of the input lacks one
TimelessFirstPointsOnly ==
    /\ \E x \in Segments : PreCropLen(x) > 0 /\ ~HasFirstPointTime(x)
    /\ \A x \in Segments :
          \A k \in 2..PreCropLen(x) : HasStamp(PointsOf(x)[k])

\* C8: with a segment whose first point has no timestamp, the run does not
\* abort and no track is emitted from such a segment.
C8_TimelessFirstPointDropped ==
    TimelessFirstPointsOnly =>
        /\ pc \notin {"prepare_raised", "prepare_typeerror",
                     "makeouttree_raised"}
        /\ Returned => \A i \in Tracks : HasFirstPointTime(outsrc[i])

\* ---------------------------------------------------------------------- C9
\* C9: every input segment holds the same points in the same order as when
\* it was parsed.
C9_InputUnchanged == tracklist = srcdoc

\* --------------------------------------------------------------------- C10
RECURSIVE TimeSorted(_)
\* the times of a point list in non-decreasing order, each as often as it
\* occurs
TimeSorted(pointlist) ==
    IF pointlist = <<>> THEN <<>>
    ELSE LET hi == CHOOSE k \in 1..Len(pointlist) :
                      \A o \in 1..Len(pointlist) :
                          PointTime(pointlist[o]) <= PointTime(pointlist[k])
             rest == SubSeq(pointlist, 1, hi - 1)
                        \o SubSeq(pointlist, hi + 1, Len(pointlist))
         IN  Append(TimeSorted(rest), PointTime(pointlist[hi]))

DistinctTimes(x) ==
    \A a, b \in 1..PreCropLen(x) :
        a # b => PointTime(PointsOf(x)[a]) # PointTime(PointsOf(x)[b])

\* the timestamps of the points of segment x between its first and its last
\* point in source order
InnerStamps(x) == {PointStamp(PointsOf(x)[k]) : k \in 2..(PreCropLen(x) - 1)}

\* segment x as it was parsed, without its first point
WithoutFirstPoint(x) ==
    LET first == CHOOSE i \in 1..Len(srcdoc[x]) :
                     /\ IsTrkpt(srcdoc[x][i])
                     /\ \A j \in 1..(i - 1) : ~IsTrkpt(srcdoc[x][j])
    IN  [k \in 1..(Len(srcdoc[x]) - 1) |->
            IF k < first THEN srcdoc[x][k] ELSE srcdoc[x][k + 1]]

\* C10 as stated, for segments of distinct timestamps: with cropping, the
\* emitted points are the time-sorted points of the segment without the
\* first and the last of that sorted list.
C10_CropRemovesEarliestAndLatest ==
    (Returned /\ crop) =>
        \A i \in Tracks :
            (AllTimed(outsrc[i]) /\ DistinctTimes(outsrc[i])) =>
                EmittedTimes(i) =
                    SubSeq(TimeSorted(PointsOf(outsrc[i])), 2,
                           PreCropLen(outsrc[i]) - 1)

\* C10 amended: with cropping, the points removed are the first and the last
\* point of the segment in source order: the emitted timestamps are those of
\* the source points between the first and the last, and the input segment
\* is left without its first point.
C10_CropRemovesFirstAndLastInSourceOrder ==
    (Returned /\ crop) =>
        \A i \in Tracks :
            /\ {PointStamp(outtree[i].trkseg[k]) :
                     k \in 1..Len(outtree[i].trkseg)} = InnerStamps(outsrc[i])
            /\ Len(outtree[i].trkseg) = Cardinality(InnerStamps(outsrc[i]))
            /\ tracklist[outsrc[i]] = WithoutFirstPoint(outsrc[i])

\* a cropped track that still holds the earliest timestamp of its segment,
\* which was out of time order
C10_Witness ==
    /\ Returned /\ crop /\ run = 1
    /\ \E i \in Tracks :
          /\ AllTimed(outsrc[i]) /\ DistinctTimes(outsrc[i])
          /\ OutOfTimeOrder(outsrc[i])
          /\ EmittedTimes(i)[1] = TimeSorted(PointsOf(outsrc[i]))[1]
====
